---- MODULE Spec2Model ----
(***************************************************************************)
(* A model of acme-azure: the certificate renewal daemon that checks the   *)
(* expiry of a certificate held in Azure Key Vault, obtains a new one      *)
(* over ACME when renewal is due, converts it to PFX and imports it.       *)
(*                                                                         *)
(* The model follows the single-file daemon (src/unnamed/part_000: main,   *)
(* runCheck, processCertificates) and the split helpers (src/azure.go:     *)
(* checkIfRenewalNeeded, convertToPFX, uploadToKeyVault).                  *)
(*                                                                         *)
(* Instants are integers counted in days: Key Vault's Expires attribute,   *)
(* time.Now() and the certificate's NotAfter are all whole days, so that   *)
(* expiresOn.AddDate(0, 0, -renewBeforeDays) is an integer subtraction.    *)
(***************************************************************************)
EXTENDS Integers, Sequences, FiniteSets, TLC

(***************************************************************************)
(* Bounds of the model.                                                    *)
(***************************************************************************)
\* the clock runs over 0..MaxNow
MaxNow == 2
\* the certificate found in the vault at startup expires in 0..MaxExpiry
\* (or at one of the ScenarioExpiries)
MaxExpiry == 3
\* a certificate obtained at instant t expires at t + 1 .. t + MaxLifetime
\* (or at t + LongLifetime)
MaxLifetime == 1
\* under LiveSpec the collaborators fail at most MaxFaults times in all
MaxFaults == 2
\* goroutines calling into the challenge provider at once: 1..NumGoroutines
NumGoroutines == 2

(***************************************************************************)
(* Program constants.                                                      *)
(***************************************************************************)
\* getEnvInt("RENEW_BEFORE_DAYS", 30)
DefaultRenewBeforeDays == 30

DefaultCheckInterval == 24

\* expiries of the two renewal scenarios (now + 10 days, now + 60 days, now = 0)
ScenarioExpiries == {10, 60}
\* the lifetime of a certificate of the production CA, in days
LongLifetime == 90

Nil == "nil"

VARIABLES
    env,            \* the process environment (os.Getenv), fixed at start
    pc,             \* position of the main goroutine
    now,            \* the wall clock, in days
    vault,          \* the certificate descriptor held by Key Vault
    cancelled,      \* ctx.Done() is closed (SIGINT/SIGTERM was delivered)
    tickerOn,       \* time.NewTicker has been called
    tickC,          \* a tick is buffered in ticker.C (capacity 1)
    faultBudget,    \* collaborator faults the environment may still inject
    needsRenewal,   \* processCertificates: needsRenewal
    checkErr,       \* processCertificates: err of checkIfRenewalNeeded
    certificates,   \* processCertificates: certificates (PEM material)
    pfxData,        \* processCertificates: pfxData, err of convertToPFX
    result,         \* the error processCertificates returned (Nil: success)
    calls,          \* the calls of the current cycle, in order, each with
                    \* whether it succeeded
    resp,           \* what GetCertificate answered in the current cycle
    checkedAt,      \* time.Now() as read by checkIfRenewalNeeded
    vaultAtStart,   \* the vault as it was when the current cycle started
    prevResult,     \* the result of the cycle before the current one
    notified,       \* the sendErrorNotification calls of the latest cycle
    acme,           \* the ACME account and client: keys generated,
                    \* registrations made, the HTTP-01 provider set
    server,         \* the HTTP server: its listener and the handler the mux
                    \* has for the challenge path
    fs,             \* the files on the local disk
    tokens,         \* challengeProvider.tokens: map[string]string
    mu,             \* challengeProvider.mu: sync.RWMutex
    gor,            \* the goroutines inside Present, CleanUp and ServeHTTP
    presented,      \* every (token, keyAuth) a Present call has stored
    outstanding     \* the tokens whose latest write was a Present

mainVars == <<env, pc, now, vault, cancelled, tickerOn, tickC, faultBudget,
              needsRenewal, checkErr, certificates, pfxData, result, calls,
              resp, checkedAt, vaultAtStart, prevResult, notified,
              acme, server, fs>>

hostVars == <<acme, server, fs>>

storeVars == <<tokens, mu, gor, presented, outstanding>>

vars == <<mainVars, storeVars>>

cycleVars == <<needsRenewal, checkErr, certificates, pfxData, result, calls,
               resp, checkedAt, vaultAtStart, prevResult, notified>>

(***************************************************************************)
(* Configuration (part_000 main, lines 177-200).                           *)
(***************************************************************************)
\* strconv.Atoi on the texts the model's environment can hold
Atoi(v) ==
    CASE v = "0" -> [ok |-> TRUE, i |-> 0]
      [] v = "1" -> [ok |-> TRUE, i |-> 1]
      [] v = "2" -> [ok |-> TRUE, i |-> 2]
      [] v = "3" -> [ok |-> TRUE, i |-> 3]
      [] OTHER   -> [ok |-> FALSE, i |-> 0]

getEnvInt(v, defaultValue) ==
    IF v # "" /\ Atoi(v).ok THEN Atoi(v).i ELSE defaultValue

renewBeforeDays == getEnvInt(env.RENEW_BEFORE_DAYS, DefaultRenewBeforeDays)

\* time.ParseDuration on the texts the model's environment can hold, in
\* hours; "0" is a duration, a number without a unit is not
ParseDuration(v) ==
    CASE v = "24h" -> [ok |-> TRUE, d |-> 24]
      [] v = "1h"  -> [ok |-> TRUE, d |-> 1]
      [] v = "0"   -> [ok |-> TRUE, d |-> 0]
      [] v = "-1h" -> [ok |-> TRUE, d |-> 0 - 1]
      [] OTHER     -> [ok |-> FALSE, d |-> 0]

\* part_000 lines 420-427: the parsed value whenever it parses
getEnvDuration(v, defaultValue) ==
    IF v # "" /\ ParseDuration(v).ok THEN ParseDuration(v).d ELSE defaultValue

\* line 177
checkInterval == getEnvDuration(env.CHECK_INTERVAL, DefaultCheckInterval)

\* line 287: time.NewTicker(d) panics when d is not positive
AfterNewTicker(d, next) == IF d <= 0 THEN "panic" ELSE next

\* domains := strings.Split(os.Getenv("DOMAINS"), ","), kept as the split list
domains == env.DOMAINS

\* the domains that lego validates, and so calls the provider for
CallDomains == {domains[i] : i \in DOMAIN domains}

certName_DefaultWhenUnset ==
    IF env.AZURE_CERT_NAME = "" THEN "wildcard-cert" ELSE env.AZURE_CERT_NAME

\* certName := os.Getenv("AZURE_CERT_NAME")
certName == env.AZURE_CERT_NAME

pfxPassword == env.PFX_PASSWORD

ConfigValid_NoKeyVaultCheck ==
    /\ ~(Len(domains) = 0 \/ (Len(domains) = 1 /\ domains[1] = ""))
    /\ env.EMAIL # ""
    /\ certName # ""

\* the four log.Fatal checks of main
ConfigValid ==
    /\ ~(Len(domains) = 0 \/ (Len(domains) = 1 /\ domains[1] = ""))
    /\ env.EMAIL # ""
    /\ env.AZURE_KEYVAULT_NAME # ""
    /\ certName # ""

\* a complete environment with every optional value left unset
BaseEnv ==
    [DOMAINS |-> <<"dev.example.com", "prd.example.com">>,
     EMAIL |-> "ops@example.com",
     AZURE_KEYVAULT_NAME |-> "kv",
     AZURE_CERT_NAME |-> "wildcard-cert",
     PFX_PASSWORD |-> "",
     RENEW_BEFORE_DAYS |-> "",
     CHECK_INTERVAL |-> "",
     NOTIFY_EMAIL_ENABLED |-> "",
     SMTP_HOST |-> "",
     SMTP_USERNAME |-> "",
     SMTP_PASSWORD |-> ""]

\* notifications enabled, with the SMTP server and its credentials
NotifyEnv ==
    [BaseEnv EXCEPT !.NOTIFY_EMAIL_ENABLED = "true",
                    !.SMTP_HOST = "smtp.example.com",
                    !.SMTP_USERNAME = "mailer",
                    !.SMTP_PASSWORD = "secret"]

\* notifications enabled, the SMTP values left unset
NotifyEnvIncomplete == [BaseEnv EXCEPT !.NOTIFY_EMAIL_ENABLED = "true"]

\* getEmailConfig, lines 122-132
emailConfig ==
    [Enabled |-> env.NOTIFY_EMAIL_ENABLED = "true",
     SMTPHost |-> env.SMTP_HOST,
     Username |-> env.SMTP_USERNAME,
     Password |-> env.SMTP_PASSWORD]

\* the environments the process is started in: BaseEnv, BaseEnv with one
\* optional value set, and BaseEnv with one required value missing
Environments ==
    {BaseEnv,
     [BaseEnv EXCEPT !.RENEW_BEFORE_DAYS = "1"],
     [BaseEnv EXCEPT !.RENEW_BEFORE_DAYS = "2"],
     [BaseEnv EXCEPT !.PFX_PASSWORD = "secret"],
     NotifyEnv,
     NotifyEnvIncomplete,
     [BaseEnv EXCEPT !.DOMAINS = <<"">>],
     [BaseEnv EXCEPT !.EMAIL = ""],
     [BaseEnv EXCEPT !.AZURE_KEYVAULT_NAME = ""],
     [BaseEnv EXCEPT !.AZURE_CERT_NAME = ""]}

(***************************************************************************)
(* Key Vault: the certificate descriptor and GetCertificate.               *)
(***************************************************************************)
NoCertificate ==
    [exists |-> FALSE, hasAttributes |-> FALSE, hasExpires |-> FALSE, expires |-> 0]

Descriptor(e) ==
    [exists |-> TRUE, hasAttributes |-> TRUE, hasExpires |-> TRUE, expires |-> e]

NoExpiresDescriptor ==
    [exists |-> TRUE, hasAttributes |-> TRUE, hasExpires |-> FALSE, expires |-> 0]

NoAttributesDescriptor ==
    [exists |-> TRUE, hasAttributes |-> FALSE, hasExpires |-> FALSE, expires |-> 0]

InitialVaults ==
    {NoCertificate, NoExpiresDescriptor, NoAttributesDescriptor}
        \cup {Descriptor(e) : e \in (0..MaxExpiry) \cup ScenarioExpiries}

\* client.GetCertificate(ctx, certName, "", nil): an error when the request
\* fails (fault, or ctx already cancelled) or the certificate does not exist
GetCertificate(v, fault) ==
    IF fault \/ ~v.exists
    THEN [err |-> TRUE, cert |-> NoCertificate]
    ELSE [err |-> FALSE, cert |-> v]

(***************************************************************************)
(* Expiry policy (azure.go checkIfRenewalNeeded, lines 18-39).             *)
(***************************************************************************)
\* t.AddDate(0, 0, days)
AddDate(t, days) == t + days

\* After with the comparison made non-strict
After_AtOrAfter(t, u) == t >= u

\* t.After(u)
After(t, u) == t > u

\* checkIfRenewalNeeded reporting a renewal only inside the lead time,
\* not once the certificate has expired
checkIfRenewalNeeded_UntilExpiry(r, leadDays, t) ==
    IF r.err
    THEN [needsRenewal |-> TRUE, err |-> "getting certificate"]
    ELSE IF ~r.cert.hasAttributes \/ ~r.cert.hasExpires
    THEN [needsRenewal |-> TRUE,
          err |-> "certificate attributes or expiration date is missing"]
    ELSE [needsRenewal |-> /\ After(t, AddDate(r.cert.expires, -leadDays))
                           /\ ~After(t, r.cert.expires),
          err |-> Nil]

\* checkIfRenewalNeeded failing closed: a failed query reports no renewal
checkIfRenewalNeeded_FailClosed(r, leadDays, t) ==
    IF r.err
    THEN [needsRenewal |-> FALSE, err |-> "getting certificate"]
    ELSE IF ~r.cert.hasAttributes \/ ~r.cert.hasExpires
    THEN [needsRenewal |-> TRUE,
          err |-> "certificate attributes or expiration date is missing"]
    ELSE [needsRenewal |-> After(t, AddDate(r.cert.expires, -leadDays)),
          err |-> Nil]

\* checkIfRenewalNeeded reporting a renewal whatever the expiry
checkIfRenewalNeeded_Always(r, leadDays, t) ==
    [needsRenewal |-> TRUE, err |-> IF r.err THEN "getting certificate" ELSE Nil]

checkIfRenewalNeeded(r, leadDays, t) ==
    IF r.err
    THEN [needsRenewal |-> TRUE, err |-> "getting certificate"]
    ELSE IF ~r.cert.hasAttributes \/ ~r.cert.hasExpires
    THEN [needsRenewal |-> TRUE,
          err |-> "certificate attributes or expiration date is missing"]
    ELSE LET expiresOn == r.cert.expires
             renewalDate == AddDate(expiresOn, -leadDays)
         IN  [needsRenewal |-> After(t, renewalDate), err |-> Nil]

(***************************************************************************)
(* Bundle converter (azure.go convertToPFX, lines 41-90).                  *)
(* PEM data is a sequence of PEM blocks; a key block carries the encoding  *)
(* of its DER bytes, a certificate block carries the certificate its DER   *)
(* bytes parse to, or junk.                                                *)
(***************************************************************************)
NoCert == [ok |-> FALSE, cn |-> "", notAfter |-> 0]

Cert(cn, notAfter) == [ok |-> TRUE, cn |-> cn, notAfter |-> notAfter]

NoBundle == [key |-> "", leaf |-> NoCert, caCerts |-> <<>>, password |-> ""]

\* pem.Decode(data): the first block and the rest, or no block
pemDecode(data) ==
    IF data = <<>>
    THEN [found |-> FALSE, block |-> "", rest |-> <<>>]
    ELSE [found |-> TRUE, block |-> Head(data), rest |-> Tail(data)]

\* x509.ParsePKCS1PrivateKey(der)
ParsePKCS1PrivateKey(der) ==
    IF der = "PKCS1-RSA" THEN [err |-> FALSE, key |-> "rsa-key"]
    ELSE [err |-> TRUE, key |-> ""]

\* x509.ParsePKCS8PrivateKey(der), and whether the key is an *rsa.PrivateKey
ParsePKCS8PrivateKey(der) ==
    CASE der = "PKCS8-RSA" -> [err |-> FALSE, key |-> "rsa-key", rsa |-> TRUE]
      [] der = "PKCS8-EC"  -> [err |-> FALSE, key |-> "ec-key", rsa |-> FALSE]
      [] OTHER             -> [err |-> TRUE, key |-> "", rsa |-> FALSE]

RECURSIVE ParseCertificates_Prepend(_, _)
ParseCertificates_Prepend(rest, certs) ==
    LET d == pemDecode(rest)
    IN  IF ~d.found THEN [err |-> FALSE, certs |-> certs]
        ELSE IF ~d.block.ok THEN [err |-> TRUE, certs |-> <<>>]
        ELSE ParseCertificates_Prepend(d.rest, <<d.block>> \o certs)

RECURSIVE ParseCertificates_SkipBad(_, _)
ParseCertificates_SkipBad(rest, certs) ==
    LET d == pemDecode(rest)
    IN  IF ~d.found THEN [err |-> FALSE, certs |-> certs]
        ELSE IF ~d.block.ok THEN ParseCertificates_SkipBad(d.rest, certs)
        ELSE ParseCertificates_SkipBad(d.rest, Append(certs, d.block))

\* the loop of lines 60-73: parse every block; stop at the first that fails
RECURSIVE ParseCertificates(_, _)
ParseCertificates(rest, certs) ==
    LET d == pemDecode(rest)
    IN  IF ~d.found THEN [err |-> FALSE, certs |-> certs]
        ELSE IF ~d.block.ok THEN [err |-> TRUE, certs |-> <<>>]
        ELSE ParseCertificates(d.rest, Append(certs, d.block))

Encode_NoPassword(privateKey, leaf, caCerts, password) ==
    [key |-> privateKey, leaf |-> leaf, caCerts |-> caCerts, password |-> ""]

\* gopkcs12.Encode(rand.Reader, privateKey, leaf, caCerts, password)
Encode(privateKey, leaf, caCerts, password) ==
    [key |-> privateKey, leaf |-> leaf, caCerts |-> caCerts, password |-> password]

\* gopkcs12.DecodeChain(pfxData, password) of the library that go.mod
\* requires: the contents of a bundle, when the password is the one the
\* bundle was encoded with
DecodeChain(pfx, password) ==
    IF password # pfx.password
    THEN [err |-> TRUE, key |-> "", leaf |-> NoCert, caCerts |-> <<>>]
    ELSE [err |-> FALSE, key |-> pfx.key, leaf |-> pfx.leaf,
          caCerts |-> pfx.caCerts]

convertToPFX(certPEM, keyPEM, password) ==
    LET keyBlock == pemDecode(keyPEM)
        k1 == ParsePKCS1PrivateKey(keyBlock.block)
        k8 == ParsePKCS8PrivateKey(keyBlock.block)
        parsed == ParseCertificates(certPEM, <<>>)
    IN  IF ~keyBlock.found
        THEN [err |-> "failed to decode private key PEM", pfxData |-> NoBundle]
        ELSE IF k1.err /\ k8.err
        THEN [err |-> "parsing private key", pfxData |-> NoBundle]
        ELSE IF k1.err /\ ~k8.rsa
        THEN [err |-> "parsed key is not RSA", pfxData |-> NoBundle]
        ELSE IF parsed.err
        THEN [err |-> "parsing certificate", pfxData |-> NoBundle]
        ELSE IF Len(parsed.certs) = 0
        THEN [err |-> "no certificates found in PEM data", pfxData |-> NoBundle]
        ELSE [err |-> Nil,
              pfxData |-> Encode(IF k1.err THEN k8.key ELSE k1.key,
                                 parsed.certs[1],
                                 IF Len(parsed.certs) > 1
                                 THEN Tail(parsed.certs) ELSE <<>>,
                                 password)]

(***************************************************************************)
(* What the ACME collaborator can hand back from Certificate.Obtain.       *)
(***************************************************************************)
NoCertificates == [Certificate |-> <<>>, PrivateKey |-> <<>>]

Lifetimes == (1..MaxLifetime) \cup {LongLifetime}

\* well-formed material: a leaf valid for one of the Lifetimes, either alone
\* with a PKCS#1 key or followed by two intermediates with a PKCS#8 key
GoodMaterial(t) ==
    {[Certificate |-> <<Cert("leaf", t + l)>>, PrivateKey |-> <<"PKCS1-RSA">>] :
        l \in Lifetimes}
    \cup
    {[Certificate |-> <<Cert("leaf", t + l), Cert("intermediate1", 0),
                        Cert("intermediate2", 0)>>,
      PrivateKey |-> <<"PKCS8-RSA">>] : l \in Lifetimes}

\* malformed material, one for each way convertToPFX can fail
BadMaterial(t) ==
    {[Certificate |-> <<Cert("leaf", t + 1)>>, PrivateKey |-> <<>>],
     [Certificate |-> <<Cert("leaf", t + 1)>>, PrivateKey |-> <<"junk">>],
     [Certificate |-> <<Cert("leaf", t + 1)>>, PrivateKey |-> <<"PKCS8-EC">>],
     [Certificate |-> <<Cert("leaf", t + 1), NoCert>>, PrivateKey |-> <<"PKCS1-RSA">>],
     [Certificate |-> <<>>, PrivateKey |-> <<"PKCS1-RSA">>]}

(***************************************************************************)
(* Upload (azure.go uploadToKeyVault, lines 92-102).                       *)
(***************************************************************************)
\* base64.StdEncoding.EncodeToString(pfxData) and its inverse
EncodeToString(data) == [base64 |-> data]

DecodeString(text) == text.base64

\* Key Vault's ImportCertificate: the stored certificate becomes the bundle's
\* leaf, and its Expires attribute the leaf's NotAfter
ImportCertificate(certString, password) ==
    Descriptor(DecodeString(certString).leaf.notAfter)

uploadToKeyVault(data, password) ==
    ImportCertificate(EncodeToString(data), password)

ImportCertificateRequest_StalePassword(name, data, password) ==
    [name |-> name, cert |-> EncodeToString(data), password |-> ""]

\* lines 93-97: what uploadToKeyVault sends: the certificate name, and
\* ImportCertificateParameters with Base64EncodedCertificate and Password
ImportCertificateRequest(name, data, password) ==
    [name |-> name, cert |-> EncodeToString(data), password |-> password]

(***************************************************************************)
(* Renewal orchestrator (part_000 processCertificates, lines 304-335).     *)
(* Each operator gives where the function goes after a stage: the next     *)
(* stage, or the return with its error.                                    *)
(***************************************************************************)
Pending == "pending"

NoResult == "none"

ErrObtain == "error obtaining certificate"

ErrConvert == "error converting to PFX"

ErrUpload == "error uploading to Key Vault"

\* AfterCheck without the early return
AfterCheck_Forced(needs) == [pc |-> "obtain", result |-> Pending]

\* AfterCheck with the test inverted
AfterCheck_Inverted(needs) ==
    IF needs THEN [pc |-> "return", result |-> Nil]
    ELSE [pc |-> "obtain", result |-> Pending]

\* lines 310-313
AfterCheck(needs) ==
    IF ~needs THEN [pc |-> "return", result |-> Nil]
    ELSE [pc |-> "obtain", result |-> Pending]

\* AfterObtain uploading what was obtained without converting it
AfterObtain_SkipConvert(failed) ==
    IF failed THEN [pc |-> "return", result |-> ErrObtain]
    ELSE [pc |-> "upload", result |-> Pending]

\* AfterObtain trying again when Obtain failed
AfterObtain_Retry(failed) ==
    IF failed THEN [pc |-> "obtain", result |-> Pending]
    ELSE [pc |-> "convert", result |-> Pending]

\* lines 319-321
AfterObtain(failed) ==
    IF failed THEN [pc |-> "return", result |-> ErrObtain]
    ELSE [pc |-> "convert", result |-> Pending]

\* AfterConvert with the error of convertToPFX dropped
AfterConvert_IgnoreErr(err) == [pc |-> "upload", result |-> Pending]

\* lines 324-326
AfterConvert(err) ==
    IF err # Nil THEN [pc |-> "return", result |-> ErrConvert]
    ELSE [pc |-> "upload", result |-> Pending]

\* AfterUpload with the error of uploadToKeyVault dropped
AfterUpload_Swallow(failed) == [pc |-> "return", result |-> Nil]

\* lines 329-334
AfterUpload(failed) ==
    IF failed THEN [pc |-> "return", result |-> ErrUpload]
    ELSE [pc |-> "return", result |-> Nil]

(***************************************************************************)
(* Collaborator faults.  Under Spec the environment may make any call      *)
(* fail; under LiveSpec it has a finite budget of faults.                  *)
(***************************************************************************)
Unbounded == 0 - 1

CanFault == faultBudget # 0

Spend(fault) ==
    IF fault /\ faultBudget > 0 THEN faultBudget - 1 ELSE faultBudget

NoPfx == [err |-> Nil, pfxData |-> NoBundle]

NoResponse == [err |-> FALSE, cert |-> NoCertificate]

\* an entry of calls; the Key Vault calls are made with certName
Call(op, ok) ==
    [op |-> op, ok |-> ok,
     name |-> IF op \in {"GetCertificate", "ImportCertificate"}
              THEN certName ELSE ""]

(***************************************************************************)
(* The token store (src/acme.go, challengeProvider): a map from token to   *)
(* key authorization guarded by a sync.RWMutex.  Present and CleanUp are   *)
(* called by the ACME client, ServeHTTP by the HTTP server, one goroutine  *)
(* per request.                                                            *)
(***************************************************************************)
Goroutines == 1..NumGoroutines

Tokens == {"", "t1"}

KeyAuths == {"p1", "p2"}

\* what a read of the map can give while another goroutine is writing it
Torn == [keyAuth |-> "torn", ok |-> TRUE]

ChallengePath == "/.well-known/acme-challenge/"

RequestPaths ==
    { "/.well-known/acme-challenge/",
      "/.well-known/acme-challenge/t1" }

\* strings.TrimPrefix(r.URL.Path, "/.well-known/acme-challenge/")
TrimPrefix(path) ==
    CASE path = ChallengePath -> ""
      [] path = "/.well-known/acme-challenge/t1" -> "t1"
      [] OTHER -> path

\* make(map[string]string)
EmptyMap == [x \in {} |-> ""]

\* keyAuth, ok := m[t]
mapLookup(m, t) ==
    IF t \in DOMAIN m THEN [keyAuth |-> m[t], ok |-> TRUE]
    ELSE [keyAuth |-> "", ok |-> FALSE]

mapAssign_KeepFirst(m, t, p) ==
    [x \in DOMAIN m \cup {t} |-> IF x \in DOMAIN m THEN m[x] ELSE p]

\* m[t] = p
mapAssign(m, t, p) ==
    [x \in DOMAIN m \cup {t} |-> IF x = t THEN p ELSE m[x]]

mapDelete_Clear(m, t) == EmptyMap

\* delete(m, t)
mapDelete(m, t) ==
    [x \in DOMAIN m \ {t} |-> m[x]]

cleanUp_OnlyOwnProof(m, domain, token, keyAuth) ==
    IF mapLookup(m, token).keyAuth = keyAuth THEN mapDelete(m, token) ELSE m

\* CleanUp(domain, token, keyAuth), lines 37-42: delete(p.tokens, token)
cleanUp(m, domain, token, keyAuth) == mapDelete(m, token)

\* sync.RWMutex: one writer or any number of readers
Unlocked == [writer |-> FALSE, readers |-> 0]

\* Lock blocks while the lock is held for reading or writing
CanLock(m) == ~m.writer /\ m.readers = 0

CanRLock_Always(m) == TRUE

\* RLock blocks while the lock is held for writing
CanRLock(m) == ~m.writer

StatusOK == 200

StatusNotFound == 404

NotFoundBody == "404 page not found"

NoLookup == [keyAuth |-> "", ok |-> FALSE]

\* a goroutine that is in none of the three methods
Idle ==
    [pc |-> "idle", domain |-> "", token |-> "", keyAuth |-> "", ok |-> FALSE,
     status |-> 0, body |-> "", holds |-> "", ret |-> "", seen |-> NoLookup]

AfterTrim_NoEmptyCheck(token) == "h_rlock"

\* ServeHTTP lines 46-49: the empty token is answered without a lookup
AfterTrim(token) == IF token = "" THEN "h_respond" ELSE "h_rlock"

AfterRead_DeferRUnlock == "h_respond"

\* ServeHTTP line 52: RUnlock follows the read at once
AfterRead == "h_runlock"

\* ServeHTTP lines 53-58: http.NotFound, or the key authorization
Response(ok, keyAuth) ==
    IF ~ok THEN [status |-> StatusNotFound, body |-> NotFoundBody]
    ELSE [status |-> StatusOK, body |-> keyAuth]

\* some goroutine is between Lock and Unlock with its write still to do
WriterActive(self) ==
    \E g \in Goroutines \ {self} : gor[g].pc \in {"p_store", "c_delete"}


(***************************************************************************)
(* What main constructs once (part_000 lines 203-264): the ACME account    *)
(* and client, and the HTTP server with its two routes.                    *)
(***************************************************************************)
\* the steps of the construction that can fail, in their order: the Azure
\* credential, the Key Vault client, the account key, the ACME client, the
\* HTTP-01 provider, the registration (lines 207-246)
ConstructSteps ==
    <<"credential", "kvClient", "accountKey", "legoClient", "provider",
      "register">>

ConstructFailures == {ConstructSteps[i] : i \in DOMAIN ConstructSteps}

StepIndex(step) == CHOOSE i \in DOMAIN ConstructSteps : ConstructSteps[i] = step

\* step was carried out, the construction having failed at failedAt
\* (Nil: nowhere)
Done(step, failedAt) ==
    failedAt = Nil \/ StepIndex(step) < StepIndex(failedAt)

\* challenge := &challengeProvider{tokens: make(map[string]string)}
Challenge == "challenge"

NoAccount == [keys |-> 0, registrations |-> 0, provider |-> Nil]

\* lines 222-248: rsa.GenerateKey, SetHTTP01Provider(challenge), Register
Account(failedAt) ==
    [keys |-> IF Done("accountKey", failedAt) THEN 1 ELSE 0,
     registrations |-> IF Done("register", failedAt) THEN 1 ELSE 0,
     provider |-> IF Done("provider", failedAt) THEN Challenge ELSE Nil]

AccountAfterObtain_RegisterPerCycle(a) ==
    [a EXCEPT !.keys = IF @ < 2 THEN @ + 1 ELSE @,
              !.registrations = IF @ < 2 THEN @ + 1 ELSE @]

\* lines 315-318: the cycle uses the client it was handed
AccountAfterObtain(a) == a

NoServer == [state |-> "none", handler |-> Nil, err |-> Nil]

\* the process has not been ended by the server goroutine's log.Fatalf
Alive == server.state # "failed"

Wiring_OwnProvider ==
    [state |-> "starting", handler |-> "another", err |-> Nil]

\* lines 251-264: mux.Handle("/.well-known/acme-challenge/", challenge);
\* go server.ListenAndServe()
Wiring == [state |-> "starting", handler |-> Challenge, err |-> Nil]

\* the map behind the handler that the mux routes the challenge path to:
\* the provider's own map m when the handler is the provider lego was
\* given, the empty map of another instance otherwise
HandlerTokens(srv, provider, m) ==
    IF srv.handler = provider THEN m ELSE EmptyMap

\* a read of a Go map that is being written is a data race; the handler
\* reads the map of the instance it was registered with
ReadOutcomes(self, t) ==
    LET m == HandlerTokens(server, acme.provider, tokens)
    IN  IF WriterActive(self) THEN {mapLookup(m, t), Torn}
        ELSE {mapLookup(m, t)}

\* what server.Shutdown can return: the grace period ran out, or the
\* listener failed to close
ShutdownErrors == {"context deadline exceeded", "close failed"}

FilesAfterConvert_TempFiles(files) ==
    files \cup {"cert.pem", "key.pem", "cert.pfx"}

\* convertToPFX (azure.go lines 41-90) opens, creates and removes no file
FilesAfterConvert(files) == files

(***************************************************************************)
(* Initial state: the process has just been started.                       *)
(***************************************************************************)
InitAfterEnv ==
    /\ pc = "validate"
    /\ now = 0
    /\ vault \in InitialVaults
    /\ cancelled = FALSE
    /\ tickerOn = FALSE
    /\ tickC = FALSE
    /\ needsRenewal = FALSE
    /\ checkErr = Nil
    /\ certificates = NoCertificates
    /\ pfxData = NoPfx
    /\ result = NoResult
    /\ calls = <<>>
    /\ resp = NoResponse
    /\ checkedAt = 0
    /\ vaultAtStart = vault
    /\ prevResult = NoResult
    /\ notified = <<>>
    /\ acme = NoAccount
    /\ server = NoServer
    /\ fs = {}
    /\ tokens = EmptyMap
    /\ mu = Unlocked
    /\ gor = [g \in Goroutines |-> Idle]
    /\ presented = {}
    /\ outstanding = {}

InitCommon ==
    /\ env \in Environments
    /\ InitAfterEnv

Init == InitCommon /\ faultBudget = Unbounded

(***************************************************************************)
(* Starting (part_000 main, lines 177-269).                                *)
(***************************************************************************)
AfterConstruct_WaitForTick(failed) == IF failed THEN "fatal" ELSE "select"

\* line 285: once everything is constructed, runCheck() is called at once
AfterConstruct(failed) == IF failed THEN "fatal" ELSE "runCheck"

\* lines 177-200: the required values, log.Fatal when one is absent
ValidateConfig ==
    /\ Alive
    /\ pc = "validate"
    /\ pc' = IF ConfigValid THEN "construct" ELSE "fatal"
    /\ UNCHANGED <<env, now, vault, cancelled, tickerOn, tickC, faultBudget>>
    /\ UNCHANGED cycleVars
    /\ UNCHANGED storeVars
    /\ UNCHANGED hostVars

\* lines 203-264: the signal context, the Key Vault client, the ACME account
\* (registered once), the HTTP server; any failure is fatal
Construct ==
    /\ Alive
    /\ pc = "construct"
    /\ \E failedAt \in ConstructFailures \cup {Nil} :
          /\ pc' = AfterConstruct(failedAt # Nil)
          /\ acme' = Account(failedAt)
          /\ server' = IF failedAt = Nil THEN Wiring ELSE NoServer
    /\ UNCHANGED fs
    /\ UNCHANGED <<env, now, vault, cancelled, tickerOn, tickC, faultBudget>>
    /\ UNCHANGED cycleVars
    /\ UNCHANGED storeVars

(***************************************************************************)
(* One cycle: runCheck calling processCertificates.                        *)
(***************************************************************************)
\* lines 305-313, with checkIfRenewalNeeded: GetCertificate, then time.Now()
CheckRenewal ==
    /\ Alive
    /\ pc = "runCheck"
    /\ \E fault \in BOOLEAN :
        /\ fault => (CanFault /\ ~cancelled)
        /\ LET r == GetCertificate(vault, fault \/ cancelled)
               d == checkIfRenewalNeeded(r, renewBeforeDays, now)
               next == AfterCheck(d.needsRenewal)
           IN  /\ resp' = r
               /\ needsRenewal' = d.needsRenewal
               /\ checkErr' = d.err
               /\ pc' = next.pc
               /\ result' = next.result
               /\ calls' = <<Call("GetCertificate", ~r.err)>>
        /\ faultBudget' = Spend(fault)
    /\ checkedAt' = now
    /\ vaultAtStart' = vault
    /\ notified' = <<>>
    /\ UNCHANGED <<env, now, vault, cancelled, tickerOn, tickC, certificates,
                   pfxData, prevResult>>
    /\ UNCHANGED storeVars
    /\ UNCHANGED hostVars

\* lines 315-318: the ObtainRequest carries main's domains
ObtainCall(ok) ==
    [op |-> "Obtain", ok |-> ok, name |-> "", domains |-> domains]

\* lines 315-321: legoClient.Certificate.Obtain
Obtain ==
    /\ Alive
    /\ pc = "obtain"
    /\ \E failed \in BOOLEAN :
        /\ failed => CanFault
        /\ \E m \in IF failed THEN {NoCertificates}
                    ELSE GoodMaterial(now) \cup
                         (IF CanFault THEN BadMaterial(now) ELSE {}) :
            /\ certificates' = m
            /\ faultBudget' = Spend(failed \/ m \in BadMaterial(now))
        /\ pc' = AfterObtain(failed).pc
        /\ result' = AfterObtain(failed).result
        /\ calls' = Append(calls, ObtainCall(~failed))
    /\ UNCHANGED <<env, now, vault, cancelled, tickerOn, tickC, needsRenewal,
                   checkErr, pfxData, resp, checkedAt, vaultAtStart, prevResult,
                   notified>>
    /\ UNCHANGED storeVars
    /\ acme' = AccountAfterObtain(acme)
    /\ UNCHANGED <<server, fs>>

\* lines 323-326: convertToPFX
Convert ==
    /\ Alive
    /\ pc = "convert"
    /\ LET c == convertToPFX(certificates.Certificate, certificates.PrivateKey,
                             pfxPassword)
       IN  /\ pfxData' = c
           /\ pc' = AfterConvert(c.err).pc
           /\ result' = AfterConvert(c.err).result
           /\ calls' = Append(calls, Call("convertToPFX", c.err = Nil))
    /\ UNCHANGED <<env, now, vault, cancelled, tickerOn, tickC, faultBudget,
                   needsRenewal, checkErr, certificates, resp, checkedAt,
                   vaultAtStart, prevResult, notified>>
    /\ UNCHANGED storeVars
    /\ fs' = FilesAfterConvert(fs)
    /\ UNCHANGED <<acme, server>>

\* lines 328-334: uploadToKeyVault; the request fails when ctx is cancelled
Upload ==
    /\ Alive
    /\ pc = "upload"
    /\ \E fault \in BOOLEAN :
        /\ fault => (CanFault /\ ~cancelled)
        /\ LET failed == fault \/ cancelled
           IN  /\ vault' = IF failed THEN vault
                           ELSE uploadToKeyVault(pfxData.pfxData, pfxPassword)
               /\ pc' = AfterUpload(failed).pc
               /\ result' = AfterUpload(failed).result
               /\ calls' = Append(calls,
                     [op |-> "ImportCertificate", ok |-> ~failed,
                      name |-> certName,
                      req |-> ImportCertificateRequest(
                                 certName, pfxData.pfxData, pfxPassword)])
        /\ faultBudget' = Spend(fault)
    /\ UNCHANGED <<env, now, cancelled, tickerOn, tickC, needsRenewal, checkErr,
                   certificates, pfxData, resp, checkedAt, vaultAtStart,
                   prevResult, notified>>
    /\ UNCHANGED storeVars
    /\ UNCHANGED hostVars

\* AfterRunCheck treating a cycle error as fatal
AfterRunCheck_FatalOnError(err) == IF err # Nil THEN "fatal" ELSE "select"

\* where main goes when runCheck returns: into the select loop, whatever
\* the error (lines 285-290, 299-300)
AfterRunCheck(err) == "select"

(***************************************************************************)
(* The failure notification (part_000 lines 134-167 and 273-281).          *)
(***************************************************************************)
Subject == "Certificate Processing Error"

ErrIncompleteSMTP == "incomplete SMTP configuration"

ErrSendMail == "smtp.SendMail failed"

\* fmt.Sprintf("Error processing certificates for domains: %v\n\n
\* Error details:\n%v", domains, err)
ErrorMessage(ds, err) == [domains |-> ds, err |-> err]

\* sendErrorNotification, lines 134-167; smtpFails is smtp.SendMail's outcome
sendErrorNotification(config, subject, message, smtpFails) ==
    IF ~config.Enabled THEN Nil
    ELSE IF config.SMTPHost = "" \/ config.Username = "" \/ config.Password = ""
         THEN ErrIncompleteSMTP
    ELSE IF smtpFails THEN ErrSendMail
    ELSE Nil

NotifyPending_RetryOnFailure(err, enabled, sent) ==
    /\ err # Nil
    /\ enabled
    /\ \/ sent = <<>>
       \/ Len(sent) = 1 /\ sent[1].err # Nil

NotifyPending_IgnoreFlag(err, enabled, sent) == err # Nil /\ sent = <<>>

\* lines 273-277: one call, when the cycle failed and notifications are on
NotifyPending(err, enabled, sent) == err # Nil /\ enabled /\ sent = <<>>

\* lines 276-279: the call; its error is logged and dropped
Notify ==
    /\ Alive
    /\ pc = "return"
    /\ NotifyPending(result, emailConfig.Enabled, notified)
    /\ \E smtpFails \in BOOLEAN :
          notified' = Append(notified,
              [subject |-> Subject,
               message |-> ErrorMessage(domains, result),
               err |-> sendErrorNotification(emailConfig, Subject,
                           ErrorMessage(domains, result), smtpFails)])
    /\ UNCHANGED <<env, pc, now, vault, cancelled, tickerOn, tickC,
                   faultBudget, needsRenewal, checkErr, certificates, pfxData,
                   result, calls, resp, checkedAt, vaultAtStart, prevResult>>
    /\ UNCHANGED storeVars
    /\ UNCHANGED hostVars

\* runCheck returns to main (line 282), then the ticker of line 287
\* (created after the first runCheck)
RunCheckReturn ==
    /\ Alive
    /\ pc = "return"
    /\ ~NotifyPending(result, emailConfig.Enabled, notified)
    /\ prevResult' = result
    /\ pc' = IF tickerOn THEN AfterRunCheck(result)
             ELSE AfterNewTicker(checkInterval, AfterRunCheck(result))
    /\ tickerOn' = (tickerOn \/ checkInterval > 0)
    /\ needsRenewal' = FALSE
    /\ checkErr' = Nil
    /\ certificates' = NoCertificates
    /\ pfxData' = NoPfx
    /\ result' = NoResult
    /\ calls' = <<>>
    /\ resp' = NoResponse
    /\ checkedAt' = 0
    /\ vaultAtStart' = vault
    /\ UNCHANGED <<env, now, vault, cancelled, tickC, faultBudget, notified>>
    /\ UNCHANGED storeVars
    /\ UNCHANGED hostVars

(***************************************************************************)
(* Running: the select loop (part_000 main, lines 290-301).                *)
(***************************************************************************)
CanReceive_WhileInCycle(at) ==
    at \in {"select", "obtain", "convert", "upload", "return"}

\* lines 290-291: main receives from its channels only in the select, which
\* it reaches when runCheck has returned
CanReceive(at) == at = "select"

AfterReceive_TickStays(buffered) == buffered

\* line 298: the receive takes the one tick that ticker.C can hold
AfterReceive(buffered) == FALSE

\* case <-ticker.C
SelectTick ==
    /\ Alive
    /\ CanReceive(pc)
    /\ tickC
    /\ tickC' = AfterReceive(tickC)
    /\ pc' = "runCheck"
    /\ UNCHANGED <<env, now, vault, cancelled, tickerOn, faultBudget>>
    /\ UNCHANGED cycleVars
    /\ UNCHANGED storeVars
    /\ UNCHANGED hostVars

AfterDone_ReturnAtOnce == "stopped"

\* lines 291-296: case <-ctx.Done() goes on to server.Shutdown
AfterDone == "shutdown"

\* case <-ctx.Done()
SelectDone ==
    /\ Alive
    /\ CanReceive(pc)
    /\ cancelled
    /\ pc' = AfterDone
    /\ UNCHANGED <<env, now, vault, cancelled, tickerOn, tickC, faultBudget>>
    /\ UNCHANGED cycleVars
    /\ UNCHANGED storeVars
    /\ UNCHANGED hostVars

AfterShutdown_FatalOnError(err) == IF err # Nil THEN "fatal" ELSE "stopped"

\* line 297: the error of server.Shutdown is not looked at
AfterShutdown(err) == "stopped"

\* server.Shutdown(shutdownCtx) with its timeout of five seconds; return
\* (the deferred ticker.Stop runs)
Shutdown ==
    /\ Alive
    /\ pc = "shutdown"
    /\ \E err \in ShutdownErrors \cup {Nil} :
          /\ pc' = AfterShutdown(err)
          /\ server' = [server EXCEPT !.state = "closed", !.err = err]
    /\ UNCHANGED <<acme, fs>>
    /\ tickerOn' = FALSE
    /\ UNCHANGED <<env, now, vault, cancelled, tickC, faultBudget>>
    /\ UNCHANGED cycleVars
    /\ UNCHANGED storeVars

(***************************************************************************)
(* The environment: the ticker, the clock, the signal.                     *)
(***************************************************************************)
\* the ticker sends on ticker.C, whose buffer holds one tick; a tick that
\* finds the buffer full is dropped
TickerFire ==
    /\ Alive
    /\ tickerOn
    /\ tickC' = TRUE
    /\ UNCHANGED <<env, pc, now, vault, cancelled, tickerOn, faultBudget>>
    /\ UNCHANGED cycleVars
    /\ UNCHANGED storeVars
    /\ UNCHANGED hostVars

\* a day passes
Advance ==
    /\ Alive
    /\ pc \notin {"fatal", "stopped", "panic"}
    /\ now < MaxNow
    /\ now' = now + 1
    /\ UNCHANGED <<env, pc, vault, cancelled, tickerOn, tickC, faultBudget>>
    /\ UNCHANGED cycleVars
    /\ UNCHANGED storeVars
    /\ UNCHANGED hostVars

\* SIGINT or SIGTERM once signal.NotifyContext is in place (line 203)
Signal ==
    /\ Alive
    /\ pc \notin {"validate", "fatal", "stopped", "panic"}
    /\ ~cancelled
    /\ cancelled' = TRUE
    /\ UNCHANGED <<env, pc, now, vault, tickerOn, tickC, faultBudget>>
    /\ UNCHANGED cycleVars
    /\ UNCHANGED storeVars
    /\ UNCHANGED hostVars

\* lines 259-263: the server goroutine binds :80 and serves
Listen ==
    /\ server.state = "starting"
    /\ pc \notin {"fatal", "stopped", "panic"}
    /\ server' = [server EXCEPT !.state = "listening"]
    /\ UNCHANGED <<env, pc, now, vault, cancelled, tickerOn, tickC,
                   faultBudget, acme, fs>>
    /\ UNCHANGED cycleVars
    /\ UNCHANGED storeVars

\* lines 260-262: ListenAndServe fails and log.Fatalf ends the process,
\* wherever the main goroutine is
ListenFail ==
    /\ server.state = "starting"
    /\ pc \notin {"fatal", "stopped", "panic"}
    /\ server' = [server EXCEPT !.state = "failed"]
    /\ UNCHANGED <<env, pc, now, vault, cancelled, tickerOn, tickC,
                   faultBudget, acme, fs>>
    /\ UNCHANGED cycleVars
    /\ UNCHANGED storeVars

Next ==
    \/ ValidateConfig
    \/ Construct
    \/ CheckRenewal
    \/ Obtain
    \/ Convert
    \/ Upload
    \/ Notify
    \/ RunCheckReturn
    \/ SelectTick
    \/ SelectDone
    \/ Shutdown
    \/ TickerFire
    \/ Advance
    \/ Signal

\* the main goroutine and its environment; the server goroutine, which
\* changes nothing but server, steps under ServerSpec
Spec == Init /\ [][Next]_vars

\* the server goroutine beside the main goroutine
ServerEnvironments == {NotifyEnv, [BaseEnv EXCEPT !.EMAIL = ""]}

ServerInit ==
    /\ InitCommon
    /\ env \in ServerEnvironments
    /\ vault \in {NoCertificate, Descriptor(MaxExpiry)}
    /\ faultBudget = Unbounded

ServerNext ==
    \/ Next
    \/ Listen
    \/ ListenFail

ServerSpec == ServerInit /\ [][ServerNext]_vars

\* the daemon started with each kind of CHECK_INTERVAL: unset, durations
\* that are positive, zero and negative, and a text that is no duration
Intervals == {"", "24h", "1h", "0", "-1h", "soon"}

IntervalEnvironments == {[NotifyEnv EXCEPT !.CHECK_INTERVAL = v] : v \in Intervals}

IntervalInit ==
    /\ env \in IntervalEnvironments
    /\ InitAfterEnv
    /\ vault \in {NoCertificate, Descriptor(MaxExpiry)}
    /\ faultBudget = Unbounded

IntervalSpec == IntervalInit /\ [][Next]_vars

\* the daemon started with each kind of DOMAINS, as strings.Split yields
\* it: two names, one name, the empty text, and a list with a trailing or
\* a leading comma
DomainLists ==
    {<<"dev.example.com", "prd.example.com">>, <<"dev.example.com">>, <<"">>,
     <<"dev.example.com", "">>, <<"", "dev.example.com">>}

DomainEnvironments == {[NotifyEnv EXCEPT !.DOMAINS = d] : d \in DomainLists}

DomainInit ==
    /\ env \in DomainEnvironments
    /\ InitAfterEnv
    /\ vault \in {NoCertificate, Descriptor(MaxExpiry)}
    /\ faultBudget = Unbounded

DomainSpec == DomainInit /\ [][Next]_vars

(***************************************************************************)
(* The token store's operations (src/acme.go lines 30-59), each goroutine  *)
(* stepping from one lock operation or map access to the next.             *)
(***************************************************************************)
\* line 30: a goroutine enters Present(domain, token, keyAuth)
PresentCall ==
    \E g \in Goroutines, d \in CallDomains, t \in Tokens, p \in KeyAuths :
        /\ pc = "obtain"
        /\ acme.provider = Challenge
        /\ gor[g].pc = "idle"
        /\ gor' = [gor EXCEPT ![g] =
                      [Idle EXCEPT !.pc = "p_lock", !.domain = d,
                                   !.token = t, !.keyAuth = p]]
        /\ UNCHANGED <<tokens, mu, presented, outstanding>>
        /\ UNCHANGED mainVars

\* line 31: p.mu.Lock()
PresentLock ==
    \E g \in Goroutines :
        /\ gor[g].pc = "p_lock"
        /\ CanLock(mu)
        /\ mu' = [mu EXCEPT !.writer = TRUE]
        /\ gor' = [gor EXCEPT ![g].pc = "p_store", ![g].holds = "w"]
        /\ UNCHANGED <<tokens, presented, outstanding>>
        /\ UNCHANGED mainVars

\* line 33: p.tokens[token] = keyAuth
PresentStore ==
    \E g \in Goroutines :
        /\ gor[g].pc = "p_store"
        /\ tokens' = mapAssign(tokens, gor[g].token, gor[g].keyAuth)
        /\ presented' = presented \cup {<<gor[g].token, gor[g].keyAuth>>}
        /\ outstanding' = outstanding \cup {gor[g].token}
        /\ gor' = [gor EXCEPT ![g].pc = "p_unlock"]
        /\ UNCHANGED mu
        /\ UNCHANGED mainVars

\* lines 32 and 34: return nil, the deferred p.mu.Unlock()
PresentUnlock ==
    \E g \in Goroutines :
        /\ gor[g].pc = "p_unlock"
        /\ mu' = [mu EXCEPT !.writer = FALSE]
        /\ gor' = [gor EXCEPT ![g].pc = "p_done", ![g].holds = "",
                              ![g].ret = Nil]
        /\ UNCHANGED <<tokens, presented, outstanding>>
        /\ UNCHANGED mainVars

\* line 37: a goroutine enters CleanUp(domain, token, keyAuth)
CleanUpCall ==
    \E g \in Goroutines, d \in CallDomains, t \in Tokens :
        /\ pc = "obtain"
        /\ acme.provider = Challenge
        /\ gor[g].pc = "idle"
        /\ gor' = [gor EXCEPT ![g] =
                      [Idle EXCEPT !.pc = "c_lock", !.domain = d, !.token = t]]
        /\ UNCHANGED <<tokens, mu, presented, outstanding>>
        /\ UNCHANGED mainVars

\* line 38: p.mu.Lock()
CleanUpLock ==
    \E g \in Goroutines :
        /\ gor[g].pc = "c_lock"
        /\ CanLock(mu)
        /\ mu' = [mu EXCEPT !.writer = TRUE]
        /\ gor' = [gor EXCEPT ![g].pc = "c_delete", ![g].holds = "w"]
        /\ UNCHANGED <<tokens, presented, outstanding>>
        /\ UNCHANGED mainVars

\* line 40: delete(p.tokens, token)
CleanUpDelete ==
    \E g \in Goroutines :
        /\ gor[g].pc = "c_delete"
        /\ \E keyAuth \in KeyAuths :
              tokens' = cleanUp(tokens, gor[g].domain, gor[g].token, keyAuth)
        /\ outstanding' = outstanding \ {gor[g].token}
        /\ gor' = [gor EXCEPT ![g].pc = "c_unlock"]
        /\ UNCHANGED <<mu, presented>>
        /\ UNCHANGED mainVars

\* lines 39 and 41: return nil, the deferred p.mu.Unlock()
CleanUpUnlock ==
    \E g \in Goroutines :
        /\ gor[g].pc = "c_unlock"
        /\ mu' = [mu EXCEPT !.writer = FALSE]
        /\ gor' = [gor EXCEPT ![g].pc = "c_done", ![g].holds = "",
                              ![g].ret = Nil]
        /\ UNCHANGED <<tokens, presented, outstanding>>
        /\ UNCHANGED mainVars

\* lines 44-49: a request arrives; the token is the path without its prefix
ServeHTTPCall ==
    \E g \in Goroutines, path \in RequestPaths :
        /\ server.state = "listening"
        /\ gor[g].pc = "idle"
        /\ gor' = [gor EXCEPT ![g] =
                      [Idle EXCEPT !.pc = AfterTrim(TrimPrefix(path)),
                                   !.token = TrimPrefix(path)]]
        /\ UNCHANGED <<tokens, mu, presented, outstanding>>
        /\ UNCHANGED mainVars

\* line 50: p.mu.RLock()
ServeHTTPRLock ==
    \E g \in Goroutines :
        /\ gor[g].pc = "h_rlock"
        /\ CanRLock(mu)
        /\ mu' = [mu EXCEPT !.readers = @ + 1]
        /\ gor' = [gor EXCEPT ![g].pc = "h_read", ![g].holds = "r"]
        /\ UNCHANGED <<tokens, presented, outstanding>>
        /\ UNCHANGED mainVars

\* line 51: keyAuth, ok := p.tokens[token]
ServeHTTPRead ==
    \E g \in Goroutines :
        /\ gor[g].pc = "h_read"
        /\ \E out \in ReadOutcomes(g, gor[g].token) :
              gor' = [gor EXCEPT ![g].pc = AfterRead,
                                 ![g].keyAuth = out.keyAuth,
                                 ![g].ok = out.ok,
                                 ![g].seen = mapLookup(tokens, gor[g].token)]
        /\ UNCHANGED <<tokens, mu, presented, outstanding>>
        /\ UNCHANGED mainVars

\* line 52: p.mu.RUnlock()
ServeHTTPRUnlock ==
    \E g \in Goroutines :
        /\ gor[g].pc = "h_runlock"
        /\ mu' = [mu EXCEPT !.readers = @ - 1]
        /\ gor' = [gor EXCEPT ![g].holds = "",
                              ![g].pc = IF gor[g].status # 0 THEN "h_done"
                                        ELSE "h_respond"]
        /\ UNCHANGED <<tokens, presented, outstanding>>
        /\ UNCHANGED mainVars

\* lines 47 and 53-58: the response is written
ServeHTTPRespond ==
    \E g \in Goroutines :
        /\ gor[g].pc = "h_respond"
        /\ gor' = [gor EXCEPT
                      ![g].status = Response(gor[g].ok, gor[g].keyAuth).status,
                      ![g].body = Response(gor[g].ok, gor[g].keyAuth).body,
                      ![g].pc = IF gor[g].holds = "r" THEN "h_runlock"
                                ELSE "h_done"]
        /\ UNCHANGED <<tokens, mu, presented, outstanding>>
        /\ UNCHANGED mainVars

\* the method has returned; the goroutine is free for the next call
Return ==
    \E g \in Goroutines :
        /\ gor[g].pc \in {"p_done", "c_done", "h_done"}
        /\ gor' = [gor EXCEPT ![g] = Idle]
        /\ UNCHANGED <<tokens, mu, presented, outstanding>>
        /\ UNCHANGED mainVars

StoreNext ==
    \/ PresentCall \/ PresentLock \/ PresentStore \/ PresentUnlock
    \/ CleanUpCall \/ CleanUpLock \/ CleanUpDelete \/ CleanUpUnlock
    \/ ServeHTTPCall \/ ServeHTTPRLock \/ ServeHTTPRead
    \/ ServeHTTPRUnlock \/ ServeHTTPRespond \/ Return

\* main has validated and constructed (the provider of part_000 line 232
\* given to lego and to the mux), the server goroutine has bound its port
\* and the first cycle, with no certificate in the vault, is inside
\* Certificate.Obtain; only the token store's operations step
StoreAfterEnv ==
    /\ pc = "obtain"
    /\ now = 0
    /\ vault = NoCertificate
    /\ cancelled = FALSE
    /\ tickerOn = FALSE
    /\ tickC = FALSE
    /\ faultBudget = Unbounded
    /\ LET r == GetCertificate(vault, FALSE)
           d == checkIfRenewalNeeded(r, renewBeforeDays, now)
       IN  /\ resp = r
           /\ needsRenewal = d.needsRenewal
           /\ checkErr = d.err
           /\ result = AfterCheck(d.needsRenewal).result
           /\ calls = <<Call("GetCertificate", ~r.err)>>
    /\ certificates = NoCertificates
    /\ pfxData = NoPfx
    /\ checkedAt = 0
    /\ vaultAtStart = vault
    /\ prevResult = NoResult
    /\ notified = <<>>
    /\ acme = Account(Nil)
    /\ server = [Wiring EXCEPT !.state = "listening"]
    /\ fs = {}
    /\ tokens = EmptyMap
    /\ mu = Unlocked
    /\ gor = [g \in Goroutines |-> Idle]
    /\ presented = {}
    /\ outstanding = {}

\* one domain is validated
StoreInit ==
    /\ env = [BaseEnv EXCEPT !.DOMAINS = <<"dev.example.com">>]
    /\ StoreAfterEnv

StoreSpec == StoreInit /\ [][StoreNext]_vars

\* the provider's side of the store alone, with two domains validated: the
\* calls that lego makes, and no request
KeyedInit ==
    /\ env = BaseEnv
    /\ StoreAfterEnv

\* lego makes the provider's calls one after another; here a call may
\* begin while one other call is still inside
AtMostOneInside ==
    Cardinality({g \in Goroutines : gor[g].pc # "idle"}) <= 1

KeyedPresentCall == AtMostOneInside /\ PresentCall

KeyedCleanUpCall == AtMostOneInside /\ CleanUpCall

KeyedNext ==
    \/ KeyedPresentCall \/ PresentLock \/ PresentStore \/ PresentUnlock
    \/ KeyedCleanUpCall \/ CleanUpLock \/ CleanUpDelete \/ CleanUpUnlock
    \/ Return

KeyedSpec == KeyedInit /\ [][KeyedNext]_vars

(***************************************************************************)
(* The bundle converter on its own: Convert is called on every PEM input  *)
(* of a bounded size that Certificate.Obtain could hand back.              *)
(***************************************************************************)
MaxCertBlocks == 3

MaxKeyBlocks == 2

\* the blocks of a certificate PEM: certificates, and a block whose bytes
\* do not parse
CertBlocks ==
    {Cert("leaf", 1), Cert("intermediate1", 0), Cert("intermediate2", 0),
     NoCert}

\* the blocks of a key PEM: DER bytes in the two formats, of an RSA or an
\* EC key, or bytes that parse as neither
KeyBlocks == {"PKCS1-RSA", "PKCS8-RSA", "PKCS8-EC", "junk"}

SeqsUpTo(S, n) == UNION {[1..k -> S] : k \in 0..n}

ConvInputs ==
    [Certificate : SeqsUpTo(CertBlocks, MaxCertBlocks),
     PrivateKey : SeqsUpTo(KeyBlocks, MaxKeyBlocks)]

ConvEnvironments == {BaseEnv, [BaseEnv EXCEPT !.PFX_PASSWORD = "secret"]}

\* the first cycle, with no certificate in the vault, has obtained some
\* material and is about to convert it
ConvInit ==
    /\ env \in ConvEnvironments
    /\ pc = "convert"
    /\ now = 0
    /\ vault = NoCertificate
    /\ cancelled = FALSE
    /\ tickerOn = FALSE
    /\ tickC = FALSE
    /\ faultBudget = Unbounded
    /\ LET r == GetCertificate(vault, FALSE)
           d == checkIfRenewalNeeded(r, renewBeforeDays, now)
       IN  /\ resp = r
           /\ needsRenewal = d.needsRenewal
           /\ checkErr = d.err
           /\ calls = <<Call("GetCertificate", ~r.err), ObtainCall(TRUE)>>
    /\ result = AfterObtain(FALSE).result
    /\ certificates \in ConvInputs
    /\ pfxData = NoPfx
    /\ checkedAt = 0
    /\ vaultAtStart = vault
    /\ prevResult = NoResult
    /\ notified = <<>>
    /\ acme = Account(Nil)
    /\ server = Wiring
    /\ fs = {}
    /\ tokens = EmptyMap
    /\ mu = Unlocked
    /\ gor = [g \in Goroutines |-> Idle]
    /\ presented = {}
    /\ outstanding = {}

ConvNext == Convert

ConvSpec == ConvInit /\ [][ConvNext]_vars

(***************************************************************************)
(* Vocabulary of the properties.                                           *)
(***************************************************************************)
\* processCertificates is past checkIfRenewalNeeded and runCheck has not yet
\* handled its return
InCycle == pc \in {"obtain", "convert", "upload", "return"}

\* processCertificates has returned; result is the error it returned
CycleReturned == pc = "return"

Ops == [i \in DOMAIN calls |-> calls[i].op]

Count(op) == Cardinality({i \in DOMAIN calls : calls[i].op = op})

Called(op) == Count(op) > 0

Failed(op) == \E i \in DOMAIN calls : calls[i].op = op /\ ~calls[i].ok

\* the cycle calls Obtain: it is at the call, or has made it
ObtainReached == pc = "obtain" \/ Called("Obtain")

\* the expiry of descriptor v is missing, or instant t is past v's expiry
\* less the lead time
ExpiryDue(v, t) ==
    \/ ~v.hasAttributes
    \/ ~v.hasExpires
    \/ t > v.expires - renewBeforeDays

FullCycle == <<"GetCertificate", "Obtain", "convertToPFX", "ImportCertificate">>

(***************************************************************************)
(* C1.  As stated: in every cycle Obtain is invoked if and only if the     *)
(* stored descriptor is missing, its expiration is missing, or             *)
(* now > expiration - lead time.  The code also invokes Obtain when the    *)
(* descriptor query fails while a descriptor that is not due is stored.    *)
(***************************************************************************)
C1_ObtainIffDescriptorDue ==
    InCycle =>
        (ObtainReached <=> (~vaultAtStart.exists \/ ExpiryDue(vaultAtStart, checkedAt)))

(***************************************************************************)
(* C1, amended.  In every cycle Obtain is invoked if and only if the       *)
(* descriptor query failed (the certificate is missing, the store cannot   *)
(* be reached, the context is cancelled), the expiration of the descriptor *)
(* it returned is missing, or now > expiration - lead time.                *)
(***************************************************************************)
C1_ObtainIffQueryFailedOrDue ==
    InCycle =>
        (ObtainReached <=> (resp.err \/ ExpiryDue(vaultAtStart, checkedAt)))

\* a cycle obtains although the stored descriptor is not due: its query failed
C1_Witness ==
    /\ CycleReturned
    /\ Called("Obtain")
    /\ resp.err
    /\ vaultAtStart.exists
    /\ ~ExpiryDue(vaultAtStart, checkedAt)

(***************************************************************************)
(* C2.  checkIfRenewalNeeded reports a renewal if and only if the          *)
(* descriptor or its expiry is absent or now > E - L; at now = E - L it    *)
(* reports none.                                                           *)
(***************************************************************************)
C2_NeedsRenewalIffPastRenewalDate ==
    InCycle =>
        /\ needsRenewal <=>
              \/ resp.err
              \/ ~resp.cert.hasAttributes
              \/ ~resp.cert.hasExpires
              \/ checkedAt > resp.cert.expires - renewBeforeDays
        /\ (~resp.err /\ resp.cert.hasExpires
              /\ checkedAt = resp.cert.expires - renewBeforeDays) => ~needsRenewal

\* the boundary: the check ran exactly at the renewal date
C2_Witness ==
    /\ CycleReturned
    /\ ~resp.err
    /\ resp.cert.hasExpires
    /\ checkedAt = resp.cert.expires - renewBeforeDays
    /\ ~needsRenewal

(***************************************************************************)
(* C3.  A failed descriptor query does not abort the cycle: it is logged,  *)
(* counts as renewal needed, and the cycle goes on to Obtain.              *)
(***************************************************************************)
C3_QueryFailureProceedsToObtain ==
    (InCycle /\ Failed("GetCertificate")) =>
        /\ checkErr # Nil
        /\ needsRenewal
        /\ ObtainReached

\* the query failed for a certificate that is stored and far from expiry, and
\* the cycle went all the way to a successful upload
C3_Witness ==
    /\ CycleReturned
    /\ Failed("GetCertificate")
    /\ vaultAtStart = Descriptor(60)
    /\ Ops = FullCycle
    /\ result = Nil

(***************************************************************************)
(* C4.  When no renewal is needed the cycle returns success with no call   *)
(* to Obtain, Convert or Upload, and the stored certificate is unchanged.  *)
(***************************************************************************)
C4_SkipIsNoOp ==
    (InCycle /\ ~needsRenewal) =>
        /\ CycleReturned
        /\ result = Nil
        /\ Ops = <<"GetCertificate">>
        /\ vault = vaultAtStart

\* the scenario: expiry = now + 60 days, lead time = 30 days
C4_Witness ==
    /\ CycleReturned
    /\ renewBeforeDays = 30
    /\ resp = [err |-> FALSE, cert |-> Descriptor(checkedAt + 60)]
    /\ ~needsRenewal
    /\ result = Nil

(***************************************************************************)
(* C5.  When renewal is due and every stage succeeds, the cycle makes      *)
(* exactly one Obtain, then one Convert, then one Upload, and returns      *)
(* success.                                                                *)
(***************************************************************************)
C5_FullCycleOnce ==
    (CycleReturned /\ needsRenewal
        /\ \A i \in DOMAIN calls : i > 1 => calls[i].ok) =>
        /\ Ops = FullCycle
        /\ result = Nil

\* the scenario: expiry = now + 10 days, lead time = 30 days
C5_Witness ==
    /\ CycleReturned
    /\ renewBeforeDays = 30
    /\ resp = [err |-> FALSE, cert |-> Descriptor(checkedAt + 10)]
    /\ needsRenewal
    /\ Ops = FullCycle
    /\ \A i \in DOMAIN calls : calls[i].ok
    /\ result = Nil

(***************************************************************************)
(* C6.  If Obtain or Convert fails, the cycle returns an error,            *)
(* ImportCertificate is not called, and the stored certificate is what it  *)
(* was before the cycle.                                                   *)
(***************************************************************************)
C6_NoUploadAfterFailure ==
    (InCycle /\ (Failed("Obtain") \/ Failed("convertToPFX"))) =>
        /\ CycleReturned
        /\ result \in {ErrObtain, ErrConvert}
        /\ ~Called("ImportCertificate")
        /\ vault = vaultAtStart

\* Convert failed on what Obtain returned, with a certificate in the store
C6_Witness ==
    /\ CycleReturned
    /\ Failed("convertToPFX")
    /\ vaultAtStart.hasExpires
    /\ vault = vaultAtStart

(***************************************************************************)
(* C7.  A cycle returns success only if it was skipped or Obtain, Convert  *)
(* and Upload all succeeded; otherwise its error names the first stage     *)
(* that failed, and the three errors differ.                               *)
(***************************************************************************)
C7_ErrorNamesFirstFailedStage ==
    CycleReturned =>
        /\ result = Nil <=>
              \/ (~needsRenewal /\ Ops = <<"GetCertificate">>)
              \/ (Ops = FullCycle /\ \A i \in 2..4 : calls[i].ok)
        /\ result = ErrObtain <=> (Len(calls) = 2 /\ Failed("Obtain"))
        /\ result = ErrConvert <=>
              (Len(calls) = 3 /\ calls[2].ok /\ Failed("convertToPFX"))
        /\ result = ErrUpload <=>
              (Len(calls) = 4 /\ calls[2].ok /\ calls[3].ok
                  /\ Failed("ImportCertificate"))
        /\ Cardinality({Nil, ErrObtain, ErrConvert, ErrUpload}) = 4

\* Obtain and Convert succeeded and the upload failed
C7_Witness ==
    /\ CycleReturned
    /\ result = ErrUpload
    /\ Ops = FullCycle
    /\ calls[2].ok
    /\ calls[3].ok

(***************************************************************************)
(* C8.  As stated: when a cycle succeeds and leaves a descriptor that is   *)
(* not within the lead time, the next cycle makes no Obtain and no Upload  *)
(* call.  The next cycle does obtain when its descriptor query fails.      *)
(***************************************************************************)
C8_SecondCycleSkips ==
    (CycleReturned /\ prevResult = Nil
        /\ vaultAtStart.exists /\ ~ExpiryDue(vaultAtStart, checkedAt)) =>
        /\ ~Called("Obtain")
        /\ ~Called("ImportCertificate")

(***************************************************************************)
(* C8, amended.  When a cycle succeeds and leaves a descriptor that is not *)
(* within the lead time, and the descriptor query of the next cycle        *)
(* succeeds, the next cycle skips: no Obtain and no Upload call, success.  *)
(***************************************************************************)
C8_SecondCycleSkipsWhenQuerySucceeds ==
    (InCycle /\ prevResult = Nil /\ ~resp.err
        /\ vaultAtStart.exists /\ ~ExpiryDue(vaultAtStart, checkedAt)) =>
        /\ CycleReturned
        /\ ~Called("Obtain")
        /\ ~Called("ImportCertificate")
        /\ result = Nil

\* the cycle after a renewal (only a renewed certificate expires this late)
\* found the new descriptor and skipped
C8_Witness ==
    /\ CycleReturned
    /\ prevResult = Nil
    /\ ~resp.err
    /\ vaultAtStart.hasExpires
    /\ vaultAtStart.expires >= LongLifetime
    /\ ~ExpiryDue(vaultAtStart, checkedAt)
    /\ Ops = <<"GetCertificate">>

(***************************************************************************)
(* C9.  No retry inside a cycle: at most one descriptor query, one Obtain, *)
(* one Convert and one Upload, and a failed stage ends the cycle.          *)
(***************************************************************************)
C9_NoRetryWithinCycle ==
    /\ \A op \in {"GetCertificate", "Obtain", "convertToPFX", "ImportCertificate"} :
          Count(op) <= 1
    /\ \A i \in DOMAIN calls :
          (i > 1 /\ ~calls[i].ok) => (i = Len(calls) /\ CycleReturned)

\* Obtain failed, once, and the cycle returned
C9_Witness ==
    /\ CycleReturned
    /\ Failed("Obtain")
    /\ Count("Obtain") = 1
    /\ result = ErrObtain

(***************************************************************************)
(* The daemon left to run: no signal is delivered, the collaborators fail  *)
(* at most faultBudget times in all, the main goroutine keeps taking its   *)
(* next step (every collaborator call returns) and the ticker keeps        *)
(* firing.                                                                 *)
(***************************************************************************)
\* started with the default lead time or a lead time of two days
LiveEnvironments == {BaseEnv, [BaseEnv EXCEPT !.RENEW_BEFORE_DAYS = "2"]}

\* no certificate, no expiry, a certificate that falls due while the clock
\* runs, a certificate that does not
LiveVaults ==
    {NoCertificate, NoExpiresDescriptor, Descriptor(MaxExpiry), Descriptor(60)}

LiveInit ==
    /\ InitCommon
    /\ env \in LiveEnvironments
    /\ vault \in LiveVaults
    /\ faultBudget = MaxFaults

MainStep ==
    \/ ValidateConfig
    \/ Construct
    \/ CheckRenewal
    \/ Obtain
    \/ Convert
    \/ Upload
    \/ RunCheckReturn
    \/ SelectTick

LiveNext ==
    \/ MainStep
    \/ TickerFire
    \/ Advance

LiveSpec ==
    /\ LiveInit
    /\ [][LiveNext]_vars
    /\ WF_vars(MainStep)
    /\ WF_vars(TickerFire)

\* Starting is over and the process has not begun to shut down
Running == pc \in {"runCheck", "obtain", "convert", "upload", "return", "select"}

\* the stored certificate is missing or due for renewal now
RenewalDue == ~vault.exists \/ ExpiryDue(vault, now)

\* processCertificates has just returned from a successful upload
UploadCompleted ==
    /\ CycleReturned
    /\ Ops = FullCycle
    /\ calls[4].ok
    /\ result = Nil
    /\ vault = uploadToKeyVault(pfxData.pfxData, pfxPassword)

(***************************************************************************)
(* C10.  A failed cycle is retried on the next tick: while the daemon is   *)
(* running with no cancellation and the collaborators eventually stop      *)
(* failing, a renewal that is due leads to a cycle that completes an       *)
(* upload of a new certificate.                                            *)
(***************************************************************************)
C10_DueRenewalEventuallyUploaded == (Running /\ RenewalDue) ~> UploadCompleted

\* a cycle failed, and the cycle of the next tick uploaded
C10_Witness ==
    /\ UploadCompleted
    /\ prevResult \in {ErrObtain, ErrConvert, ErrUpload}

(***************************************************************************)
(* The scheduler with the signal, under fair scheduling: the main          *)
(* goroutine keeps running and the ticker keeps ticking; whether and when  *)
(* a signal arrives is left open.  The clock stands still and the vault   *)
(* starts with no certificate, so the first cycle finds a renewal due.     *)
(***************************************************************************)
SchedEnvironments == {BaseEnv, NotifyEnv, NotifyEnvIncomplete}

SchedInit ==
    /\ InitCommon
    /\ env \in SchedEnvironments
    /\ vault = NoCertificate
    /\ faultBudget = MaxFaults

MainGoroutine ==
    \/ MainStep
    \/ Notify
    \/ SelectDone
    \/ Shutdown

SchedNext ==
    \/ MainGoroutine
    \/ TickerFire
    \/ Signal

SchedSpec ==
    /\ SchedInit
    /\ [][SchedNext]_vars
    /\ WF_vars(MainGoroutine)
    /\ WF_vars(TickerFire)

\* the cycle-stage errors
CycleErrors == {ErrObtain, ErrConvert, ErrUpload}

\* runCheck has returned to main and no later cycle has returned yet:
\* prevResult and notified are those of the latest cycle
CycleOver ==
    /\ prevResult # NoResult
    /\ pc \in {"select", "runCheck", "shutdown", "stopped"}

\* C16: the select loop is entered only when a cycle has returned, and the
\* first cycle runs while no ticker exists yet: it is started by main itself
\* on entering Running, not by a tick.
C16_FirstCycleImmediate ==
    /\ pc \in {"select", "shutdown", "stopped"} => prevResult # NoResult
    /\ (Running /\ prevResult = NoResult) => (~tickerOn /\ ~tickC)
    /\ (pc = "runCheck" /\ prevResult # NoResult) => tickerOn

\* the first cycle is at its Obtain call and no ticker has been created
C16_Witness ==
    /\ pc = "obtain"
    /\ prevResult = NoResult
    /\ ~tickerOn
    /\ now = 0

\* C17: a cycle starts only from Starting or from the select, with nothing
\* of an earlier cycle in flight; while a cycle runs a tick waits in the
\* ticker's channel and no step but the cycle's own return ends the cycle.
C17_CyclesNeverOverlap ==
    [][ /\ (pc' = "runCheck" /\ pc # "runCheck")
              => /\ pc \in {"construct", "select"}
                 /\ calls = <<>>
                 /\ result = NoResult
        /\ (InCycle /\ ~InCycle') => (pc = "return" /\ pc' = "select") ]_vars

\* a tick has fired while a later cycle is at its Obtain call
C17_Witness ==
    /\ pc = "obtain"
    /\ tickC
    /\ prevResult # NoResult

\* C18: the return of a cycle takes main to the select with the ticker
\* running and changes neither the pending tick nor the cancellation,
\* whatever the cycle's error; the process is fatal only out of Starting and
\* shuts down only when cancelled; and after a cycle that returned an error
\* main starts another cycle unless a signal arrives.
C18_ErrorKeepsScheduling ==
    /\ [][ (pc = "return" /\ pc' # "return")
              => /\ pc' = "select"
                 /\ tickerOn'
                 /\ tickC' = tickC
                 /\ cancelled' = cancelled ]_vars
    /\ [](pc = "fatal" => prevResult = NoResult /\ calls = <<>>)
    /\ [](pc \in {"shutdown", "stopped"} => cancelled)
    /\ (pc = "select" /\ prevResult \in CycleErrors)
          ~> (pc = "runCheck" \/ cancelled)

\* the first cycle failed at Obtain and, with no signal, the tick has started
\* the next cycle
C18_Witness ==
    /\ pc = "runCheck"
    /\ prevResult = ErrObtain
    /\ ~cancelled
    /\ vault = vaultAtStart

\* the record of the one call that carries error err
Carries(sent, err) ==
    /\ Len(sent) = 1
    /\ sent[1].subject = Subject
    /\ sent[1].message = ErrorMessage(domains, err)

\* C19 as stated: a cycle that returned an error has made one call of
\* sendErrorNotification carrying that error, a cycle that returned nil has
\* made none.
C19_EveryErrorNotified ==
    CycleOver =>
        IF prevResult # Nil THEN Carries(notified, prevResult)
        ELSE notified = <<>>

\* C19: a cycle that returned an error with notifications enabled has made
\* one call of sendErrorNotification carrying that error; a cycle that
\* returned nil, and every cycle with notifications disabled, has made none.
C19_ErrorNotifiedWhenEnabled ==
    CycleOver =>
        IF prevResult # Nil /\ emailConfig.Enabled
        THEN Carries(notified, prevResult)
        ELSE notified = <<>>

\* a cycle failed at the upload and its notification was sent
C19_Witness ==
    /\ CycleOver
    /\ prevResult = ErrUpload
    /\ Carries(notified, ErrUpload)
    /\ notified[1].err = Nil

\* the latest cycle's notification failed
NotifyFailed == notified # <<>> /\ notified[Len(notified)].err # Nil

\* C20: when sendErrorNotification fails there is no second call for that
\* cycle, the process is not fatal and shuts down only when cancelled, and
\* main returns to the select and starts another cycle unless a signal
\* arrives.
C20_NotifyFailureNotEscalated ==
    /\ [](NotifyFailed
             => /\ Len(notified) = 1
                /\ pc # "fatal"
                /\ pc \in {"shutdown", "stopped"} => cancelled)
    /\ [][ (NotifyFailed /\ pc = "return" /\ pc' # "return")
              => (pc' = "select" /\ notified' = notified) ]_vars
    /\ (NotifyFailed /\ pc \in {"return", "select"})
          ~> (pc = "runCheck" \/ cancelled)

\* smtp.SendMail failed for the previous cycle and the tick has started the
\* next one
C20_Witness ==
    /\ pc = "runCheck"
    /\ NotifyFailed
    /\ notified[1].err = ErrSendMail
    /\ ~cancelled

(***************************************************************************)
(* The token store.                                                        *)
(***************************************************************************)
\* goroutine g takes the step from one position of its method to the next
Stepped(g, from, to) == gor[g].pc = from /\ gor'[g].pc = to

Stored(g) == [keyAuth |-> gor[g].keyAuth, ok |-> TRUE]

\* C11: the lookup of a token changes only by a Present or a CleanUp of that
\* same token: Present(t, p) makes it (p, found), CleanUp(t) makes it
\* not-found, and every other token's lookup is what it was.  So after
\* Present(t, p) the lookup of t gives p until the next Present or CleanUp
\* of t, and after CleanUp(t) it gives not-found until the next Present of t.
C11_LookupFollowsLastWrite ==
    [][ /\ \A g \in Goroutines :
             /\ Stepped(g, "p_store", "p_unlock")
                   => mapLookup(tokens', gor[g].token) = Stored(g)
             /\ Stepped(g, "c_delete", "c_unlock")
                   => mapLookup(tokens', gor[g].token) = NoLookup
        /\ \A t \in Tokens :
             mapLookup(tokens', t) # mapLookup(tokens, t)
                => \E g \in Goroutines :
                      /\ gor[g].token = t
                      /\ \/ Stepped(g, "p_store", "p_unlock")
                         \/ Stepped(g, "c_delete", "c_unlock") ]_vars

\* t1 is stored with p1 although the empty token was stored and cleaned up
\* and t1 itself was stored with p2 before
C11_Witness ==
    /\ mapLookup(tokens, "t1") = [keyAuth |-> "p1", ok |-> TRUE]
    /\ mapLookup(tokens, "") = NoLookup
    /\ {<<"", "p2">>, <<"t1", "p2">>, <<"t1", "p1">>} \subseteq presented
    /\ \E g \in Goroutines : gor[g].pc = "c_done" /\ gor[g].token = ""

\* C12: Present of a token that is stored replaces its proof and leaves the
\* set of stored tokens as it was; CleanUp of a token that is not stored
\* leaves the store as it is; after a CleanUp the token is not stored, so a
\* second CleanUp changes nothing; both return nil.
C12_OverwriteAndIdempotentCleanUp ==
    /\ [][ \A g \in Goroutines :
             /\ (Stepped(g, "p_store", "p_unlock")
                    /\ gor[g].token \in DOMAIN tokens)
                   => /\ DOMAIN tokens' = DOMAIN tokens
                      /\ tokens'[gor[g].token] = gor[g].keyAuth
             /\ (Stepped(g, "c_delete", "c_unlock")
                    /\ gor[g].token \notin DOMAIN tokens)
                   => tokens' = tokens
             /\ Stepped(g, "c_delete", "c_unlock")
                   => /\ gor[g].token \notin DOMAIN tokens'
                      /\ mapDelete(tokens', gor[g].token) = tokens' ]_vars
    /\ [](\A g \in Goroutines :
             gor[g].pc \in {"p_done", "c_done"} => gor[g].ret = Nil)

\* one goroutine has overwritten t1's proof, another has cleaned up the
\* empty token, which is not stored
C12_Witness ==
    \E g, h \in Goroutines :
        /\ gor[g].pc = "p_done" /\ gor[g].token = "t1" /\ gor[g].ret = Nil
        /\ {<<"t1", "p1">>, <<"t1", "p2">>} \subseteq presented
        /\ tokens = [x \in {"t1"} |-> gor[g].keyAuth]
        /\ gor[h].pc = "c_done" /\ gor[h].token = "" /\ gor[h].ret = Nil
        /\ \A p \in KeyAuths : <<"", p>> \notin presented

\* C13: a request whose token was in the store when it was looked up is
\* answered 200 with the stored proof as its body, one whose token was not
\* is answered 404, and a request with the empty token is answered 404
\* whatever the store holds.
C13_ResponseIsStoredProofOr404 ==
    \A g \in Goroutines :
        gor[g].pc = "h_done"
           => /\ (gor[g].token # "" /\ gor[g].seen.ok)
                    => /\ gor[g].status = StatusOK
                       /\ gor[g].body = gor[g].seen.keyAuth
              /\ (gor[g].token # "" /\ ~gor[g].seen.ok)
                    => gor[g].status = StatusNotFound
              /\ gor[g].token = "" => gor[g].status = StatusNotFound

\* the empty token is stored and answered 404, t1 is stored and answered 200
C13_Witness ==
    \E g, h \in Goroutines :
        /\ "" \in DOMAIN tokens
        /\ gor[g].pc = "h_done" /\ gor[g].token = ""
        /\ gor[g].status = StatusNotFound
        /\ "t1" \in DOMAIN tokens
        /\ gor[h].pc = "h_done" /\ gor[h].token = "t1"
        /\ gor[h].status = StatusOK /\ gor[h].body = tokens["t1"]

\* a goroutine that waits for the lock
Blocked(g) ==
    \/ gor[g].pc \in {"p_lock", "c_lock"} /\ ~CanLock(mu)
    \/ gor[g].pc = "h_rlock" /\ ~CanRLock(mu)

\* a goroutine whose lookup has been made
HasRead(g) ==
    gor[g].token # "" /\ gor[g].pc \in {"h_runlock", "h_respond", "h_done"}

\* C14: whenever some goroutine is inside a call, some goroutine inside a
\* call can take its next step; and what a lookup of t has read is not-found
\* or a proof that a Present of t has stored.
C14_NoDeadlockNoTornRead ==
    /\ (\E g \in Goroutines : gor[g].pc # "idle")
          => \E g \in Goroutines : gor[g].pc # "idle" /\ ~Blocked(g)
    /\ \A g \in Goroutines :
          (HasRead(g) /\ gor[g].ok)
             => <<gor[g].token, gor[g].keyAuth>> \in presented

\* a lookup has read a proof while a Present waits for the lock it holds
C14_Witness ==
    \E g, h \in Goroutines :
        /\ gor[g].pc = "h_runlock" /\ gor[g].ok
        /\ gor[h].pc = "p_lock" /\ Blocked(h)

Writers == {g \in Goroutines : gor[g].holds = "w"}

Readers == {g \in Goroutines : gor[g].holds = "r"}

\* C15: the lock is held by no writer, or by one writer and no reader; a
\* goroutine that is about to write the map holds it for writing, one that
\* is about to read the map holds it for reading; a goroutine that writes
\* its response, or has written it, holds nothing.
C15_MapOnlyUnderLock ==
    /\ mu.writer = (Writers # {})
    /\ mu.readers = Cardinality(Readers)
    /\ Cardinality(Writers) <= 1
    /\ Writers # {} => Readers = {}
    /\ \A g \in Goroutines :
          /\ gor[g].pc \in {"p_store", "c_delete"} => gor[g].holds = "w"
          /\ gor[g].pc = "h_read" => gor[g].holds = "r"
          /\ gor[g].pc \in {"h_respond", "h_done"} => gor[g].holds = ""

\* two lookups hold the lock for reading at once
C15_Witness ==
    /\ Cardinality(Readers) = 2
    /\ \E g \in Goroutines : gor[g].pc = "h_read"
    /\ \E g \in Goroutines : gor[g].pc = "h_runlock"

(***************************************************************************)
(* Shutdown.                                                               *)
(***************************************************************************)
\* C21 as stated: once ctx.Done() is closed, main in its select starts no
\* cycle, whether or not a tick is pending.
C21_NoCycleAfterCancellation ==
    [][ (cancelled /\ pc = "select") => pc' # "runCheck" ]_vars

\* C22 as stated: while the collaborators have not failed of their own, a
\* call of a cycle fails only when it is the query for a certificate that
\* the vault does not hold: the cancellation makes no call fail.
C22_CancellationFailsNoStage ==
    (InCycle /\ faultBudget = MaxFaults)
       => \A i \in DOMAIN calls :
             ~calls[i].ok
                => (calls[i].op = "GetCertificate" /\ ~vaultAtStart.exists)

\* the scheduler with a fair select: when ctx.Done() is ready again and again
\* the select, which chooses at random among its ready cases, takes it
ShutdownSpec ==
    /\ SchedInit
    /\ [][SchedNext]_vars
    /\ WF_vars(MainGoroutine)
    /\ WF_vars(TickerFire)
    /\ SF_vars(SelectDone)

RequiredAbsent ==
    \/ env.DOMAINS = <<"">>
    \/ env.EMAIL = ""
    \/ env.AZURE_KEYVAULT_NAME = ""
    \/ env.AZURE_CERT_NAME = ""

OnlyCertNameUnset ==
    /\ env.AZURE_CERT_NAME = ""
    /\ env.DOMAINS # <<"">>
    /\ env.EMAIL # ""
    /\ env.AZURE_KEYVAULT_NAME # ""

NoAnswer == [status |-> 0, body |-> ""]

\* part_000 lines 252-255: WriteHeader(http.StatusOK); Write("ok")
Healthz(srv) ==
    IF srv.state = "listening" THEN [status |-> StatusOK, body |-> "ok"]
    ELSE NoAnswer

\* C28: in every state in which the orchestrator is Running, the first
\* cycle included, GET /healthz is answered 200 with body ok.
C28_ServingWheneverRunning ==
    (Alive /\ Running) => Healthz(server) = [status |-> StatusOK, body |-> "ok"]

\* the scheduler state that a position of main belongs to; "Fatal" is the
\* exit of log.Fatal
SchedulerState(p) ==
    CASE p \in {"validate", "construct"} -> "Starting"
      [] p \in {"runCheck", "obtain", "convert", "upload", "return", "select"}
            -> "Running"
      [] p = "shutdown" -> "ShuttingDown"
      [] p = "stopped" -> "Stopped"
      [] OTHER -> "Fatal"

\* the moves of the scheduler state: staying, or one state forward; the
\* fatal exit is taken from Starting only
Forward ==
    {<<"Starting", "Starting">>, <<"Starting", "Running">>,
     <<"Starting", "Fatal">>, <<"Running", "Running">>,
     <<"Running", "ShuttingDown">>, <<"ShuttingDown", "ShuttingDown">>,
     <<"ShuttingDown", "Stopped">>, <<"Stopped", "Stopped">>,
     <<"Fatal", "Fatal">>}

C31_TicksNotQueued ==
    /\ [][ (pc = "select" /\ pc' = "runCheck") => (tickC /\ ~tickC') ]_vars
    /\ [][ (pc # "runCheck" /\ pc' = "runCheck")
              => pc \in {"construct", "select"} ]_vars
    /\ [][ (~tickC /\ tickC') => (tickerOn /\ pc' = pc) ]_vars

\* a later day, a cycle has already returned, and the next cycle has been
\* started by the buffered tick, which is gone from the channel
C31_Witness ==
    /\ pc = "runCheck"
    /\ prevResult # NoResult
    /\ ~tickC
    /\ tickerOn
    /\ now > 0

(***************************************************************************)
(* Bundle converter claims.                                                *)
(***************************************************************************)
\* Convert has been called and has returned
Converted == pc \in {"upload", "return"} /\ Called("convertToPFX")

\* the key PEM begins with a block that holds an RSA key in one of the two
\* formats
KeyUsable ==
    /\ certificates.PrivateKey # <<>>
    /\ certificates.PrivateKey[1] \in {"PKCS1-RSA", "PKCS8-RSA"}

\* C32: when Convert returns a bundle, the bundle's end-entity certificate
\* is the first certificate of the PEM input and its chain is the rest of
\* the input in the input's order: end-entity and chain together are the
\* input, nothing re-sorted, dropped or duplicated.
C32_FirstIsLeafRestIsChain ==
    (Converted /\ pfxData.err = Nil)
       => /\ pfxData.pfxData.leaf = certificates.Certificate[1]
          /\ <<pfxData.pfxData.leaf>> \o pfxData.pfxData.caCerts
                = certificates.Certificate

\* the input [leaf, intermediate1, intermediate2] has been converted
C32_Witness ==
    /\ Converted
    /\ pfxData.err = Nil
    /\ certificates.Certificate
          = <<Cert("leaf", 1), Cert("intermediate1", 0), Cert("intermediate2", 0)>>
    /\ pfxData.pfxData.caCerts
          = <<Cert("intermediate1", 0), Cert("intermediate2", 0)>>

OriginalKey ==
    LET der == certificates.PrivateKey[1]
    IN  IF der = "PKCS1-RSA" THEN ParsePKCS1PrivateKey(der).key
        ELSE ParsePKCS8PrivateKey(der).key

ImportCalls == {i \in DOMAIN calls : calls[i].op = "ImportCertificate"}

\* C34: in a cycle that has called ImportCertificate, the bundle sent is
\* the bundle that this cycle's Convert returned, which is the conversion
\* of this cycle's Obtain result; the password sent is the password the
\* bundle was encoded with; and the name is the configured certificate
\* name, the one the descriptor query of the cycle used.
C34_UploadSendsThisCyclesBundle ==
    InCycle =>
       \A i \in ImportCalls :
          /\ DecodeString(calls[i].req.cert) = pfxData.pfxData
          /\ pfxData
                = convertToPFX(certificates.Certificate,
                               certificates.PrivateKey, pfxPassword)
          /\ pfxData.err = Nil
          /\ calls[i - 1].op = "convertToPFX"
          /\ calls[i].req.password = pfxData.pfxData.password
          /\ ~DecodeChain(DecodeString(calls[i].req.cert),
                          calls[i].req.password).err
          /\ calls[i].req.name = certName
          /\ calls[i].req.name = calls[1].name
          /\ calls[1].op = "GetCertificate"

\* a second cycle has uploaded a bundle made with the password secret
C34_Witness ==
    /\ CycleReturned
    /\ prevResult # NoResult
    /\ ImportCalls # {}
    /\ pfxPassword = "secret"
    /\ \A i \in ImportCalls : calls[i].ok /\ calls[i].req.password = "secret"

\* C36 as stated: a cycle that starts with the context already cancelled,
\* while the vault holds a certificate that is not due, does not go on to
\* Obtain (its descriptor query can fail only because of the cancellation:
\* no other failure of the query is possible once the context is
\* cancelled).
C36_CancellationObtainsNothing ==
    [][ (pc = "runCheck" /\ cancelled /\ vault.exists
            /\ ~ExpiryDue(vault, now))
           => pc' # "obtain" ]_vars

\* C37 as stated: in every Running state the interval given to the ticker
\* is strictly positive, and main never panics.
C37_IntervalPositiveWhenRunning ==
    /\ Running => checkInterval > 0
    /\ pc # "panic"

\* C38 as stated: in every Running state the list of domains is not empty
\* and holds no empty name, and every Obtain call of the cycle was given
\* that list.
C38_DomainsNonEmptyNames ==
    /\ Running => /\ domains # <<>>
                  /\ \A i \in DOMAIN domains : domains[i] # ""
    /\ \A i \in DOMAIN calls :
          calls[i].op = "Obtain" => calls[i].domains = domains

\* what checkIfRenewalNeeded reports at instant t for the stored
\* certificate v, the query having failed or not
NeedsRenewalAt(v, failed, t) ==
    checkIfRenewalNeeded(GetCertificate(v, failed), renewBeforeDays, t).needsRenewal

\* C39: for the stored certificate and the configured lead time, a renewal
\* that is reported needed now is reported needed at every later instant;
\* and while the stored certificate stays what it is, whatever the steps
\* taken and the days passed, a renewal that was needed is still needed.
C39_RenewalNeedIsMonotonic ==
    /\ [](\A failed \in BOOLEAN : \A t \in now..(MaxNow + 1) :
             NeedsRenewalAt(vault, failed, now)
                => NeedsRenewalAt(vault, failed, t))
    /\ [][ (NeedsRenewalAt(vault, FALSE, now) /\ vault' = vault)
              => NeedsRenewalAt(vault', FALSE, now') ]_vars

\* a cycle that had to renew a stored certificate has failed on an earlier
\* day, days have passed, and the renewal is still needed at the next query
C39_Witness ==
    /\ pc = "runCheck"
    /\ prevResult \notin {NoResult, Nil}
    /\ now = MaxNow
    /\ vault.exists
    /\ vault.hasExpires
    /\ ~NeedsRenewalAt(vault, FALSE, 0)
    /\ NeedsRenewalAt(vault, FALSE, now)

\* the tokens that the map holds
StoredTokens == {t \in Tokens : mapLookup(tokens, t).ok}

\* C40: whatever the domain and the proof a CleanUp is called with, its
\* delete leaves the map without the token and every other token as it was;
\* the map holds exactly the tokens whose latest write was a Present, so
\* when every Present of a token has been followed by a CleanUp of it the
\* map is empty.
C40_KeyedByTokenAlone ==
    /\ [][ \A g \in Goroutines :
              Stepped(g, "c_delete", "c_unlock")
                 => /\ gor[g].token \notin StoredTokens'
                    /\ StoredTokens' = StoredTokens \ {gor[g].token}
                    /\ \A t \in Tokens \ {gor[g].token} :
                          mapLookup(tokens', t) = mapLookup(tokens, t) ]_vars
    /\ [](StoredTokens = outstanding)
    /\ [](outstanding = {} => tokens = EmptyMap)

\* Present(dev, t1, p1) has stored and not yet returned, and CleanUp(prd,
\* t1, _) has deleted: the map is empty again
C40_Witness ==
    \E g, h \in Goroutines :
        /\ gor[g].pc = "p_done"
        /\ gor[g].domain = "dev.example.com"
        /\ gor[g].token = "t1"
        /\ gor[g].keyAuth = "p1"
        /\ gor[h].pc = "c_unlock"
        /\ gor[h].domain = "prd.example.com"
        /\ gor[h].token = "t1"
        /\ <<"t1", "p1">> \in presented
        /\ tokens = EmptyMap
        /\ outstanding = {}

====
